---- MODULE Spec2Model ----
(***************************************************************************)
(* Craigslist bot: incremental crawl and de-duplication controller.        *)
(*                                                                         *)
(* backend/main.py      scraper, scorer fallback, Seen-Set store,          *)
(*                      threshold filter, craigslist_bot_entry_point       *)
(* backend/task_api.py  task documents, scheduler jobs, background threads *)
(* main.py              the legacy single-search entry point and store     *)
(*                                                                         *)
(* Abstractions:                                                           *)
(*  - an upstream posting is a natural number (its title in a JSON-LD      *)
(*    page, its numeric posting id in a DOM page); a result page is a      *)
(*    newest-first sequence of postings without repetition;                *)
(*  - a listing id "json_ld_{i}_{h}" / "dom_{i}_{n}" is the record         *)
(*    [kind, pos, val]: the format is injective in its two numbers;        *)
(*  - Python's str hash is salted per process: PyHash takes the salt;      *)
(*  - scores are integer percentages (0.70 is 70);                         *)
(*  - list(set(xs)) has an unspecified order: SetToSeq fixes one.          *)
(***************************************************************************)
EXTENDS Integers, Sequences, FiniteSets, TLC

(***************************************************************************)
(* Bounds of the model                                                     *)
(***************************************************************************)
\* postings that ever exist upstream; also the longest result page
MaxItems == 3
\* process hash salts are 0..MaxSalt
MaxSalt == 1
\* requests made to the entry point in one behaviour
MaxInvocations == 2

(***************************************************************************)
(* Program constants                                                       *)
(***************************************************************************)
\* hash(title) % 100000
HashMod == 100000
\* STRICTNESS_THRESHOLDS
LessStrict == 50
Strict == 70
VeryStrict == 85
\* neutral fallback score of llm_evaluate_listing
NeutralScore == 50

Postings == 1..MaxItems
Salts == 0..MaxSalt
Positions == 0..(MaxItems - 1)
PageKinds == {"json_ld", "dom"}

Range(s) == {s[i] : i \in DOMAIN s}

\* Result pages. Postings are numbered in the order they were posted and a
\* page lists them newest first: a strictly decreasing sequence.
Pages == UNION {{s \in [1..n -> Postings] : \A i \in 1..n, j \in 1..n : i < j => s[i] > s[j]} : n \in 0..MaxItems}

(***************************************************************************)
(* Identity of a scraped item                                              *)
(***************************************************************************)
\* Python's hash(str): a fixed function of the string within one process,
\* salted differently in another process
PyHash(salt, title) == (title + salt) * 31337

\* the mutant: an identity from intrinsic content only
ListingIdStable(kind, i, posting, salt) ==
    [kind |-> kind, pos |-> 0, val |-> posting]

\* listing_id = f"json_ld_{i}_{hash(title) % 100000}" / f"dom_{i}_{numeric_id}"
ListingId(kind, i, posting, salt) ==
    IF kind = "json_ld"
    THEN [kind |-> "json_ld", pos |-> i, val |-> PyHash(salt, posting) % HashMod]
    ELSE [kind |-> "dom", pos |-> i, val |-> posting]

\* every identity the scraper can compute
AllIds == {ListingId(k, i, p, s) : k \in PageKinds, i \in Positions, p \in Postings, s \in Salts}

(***************************************************************************)
(* scrape_new_listings_data                                                *)
(***************************************************************************)
\* listing_elements[:initial_scrape_count]
PySlicePrefix(s, n) ==
    IF n >= 0
    THEN SubSeq(s, 1, IF n < Len(s) THEN n ELSE Len(s))
    ELSE SubSeq(s, 1, IF Len(s) + n > 0 THEN Len(s) + n ELSE 0)

\* the mutant: an initial run that takes the whole page
LimitElementsAll(items, is_initial_run, initial_scrape_count) == items

\* if is_initial_run: listing_elements = listing_elements[:initial_scrape_count]
LimitElements(items, is_initial_run, initial_scrape_count) ==
    IF is_initial_run THEN PySlicePrefix(items, initial_scrape_count) ELSE items

\* the mutant: a seen item is skipped, the scan goes on
StopAtSeenNever(is_initial_run, seen_ids, listing_id) == FALSE

\* if not is_initial_run and seen_ids and listing_id in seen_ids: break
StopAtSeen(is_initial_run, seen_ids, listing_id) ==
    /\ ~is_initial_run
    /\ seen_ids # {}
    /\ listing_id \in seen_ids

\* the for loop over listing_elements, from element i on. `fails` are the
\* positions whose processing raises or is skipped (no link, no numeric id,
\* a failed page fetch): all of that happens before the seen check.
RECURSIVE ScrapeLoop(_, _, _, _, _, _, _)
RECURSIVE ScrapeLoopAbort(_, _, _, _, _, _, _)
\* the mutant: an item that raises ends the scan
ScrapeLoopAbort(elems, i, kind, salt, fails, is_initial_run, seen_ids) ==
    IF i > Len(elems) THEN <<>>
    ELSE IF i \in fails
    THEN <<>>
    ELSE LET listing_id == ListingId(kind, i - 1, elems[i], salt) IN
         IF StopAtSeen(is_initial_run, seen_ids, listing_id)
         THEN <<>>
         ELSE <<[id |-> listing_id, posting |-> elems[i]]>>
              \o ScrapeLoopAbort(elems, i + 1, kind, salt, fails, is_initial_run, seen_ids)

ScrapeLoop(elems, i, kind, salt, fails, is_initial_run, seen_ids) ==
    IF i > Len(elems) THEN <<>>
    ELSE IF i \in fails
    THEN ScrapeLoop(elems, i + 1, kind, salt, fails, is_initial_run, seen_ids)
    ELSE LET listing_id == ListingId(kind, i - 1, elems[i], salt) IN
         IF StopAtSeen(is_initial_run, seen_ids, listing_id)
         THEN <<>>
         ELSE <<[id |-> listing_id, posting |-> elems[i]]>>
              \o ScrapeLoop(elems, i + 1, kind, salt, fails, is_initial_run, seen_ids)

\* page_ok = FALSE: the search page request raised; the outer except returns []
ScrapeNewListingsData(page_ok, kind, items, is_initial_run, initial_scrape_count, seen_ids, fails, salt) ==
    IF ~page_ok THEN <<>>
    ELSE ScrapeLoop(LimitElements(items, is_initial_run, initial_scrape_count),
                    1, kind, salt, fails, is_initial_run, seen_ids)

(***************************************************************************)
(* Evaluation results and get_production_listings                          *)
(***************************************************************************)
\* evaluation['match_score'] is whatever the scorer's JSON held: a number,
\* or the string 'Unknown' that llm_evaluate_listing fills in for a missing
\* field
Num(v) == [type |-> "float", v |-> v]
UnknownStr == [type |-> "str", v |-> 0]

\* scores a scorer may answer with: below every threshold, each threshold,
\* above every threshold
ScoreValues == {30, LessStrict, Strict, VeryStrict, 100}
Scores == {Num(v) : v \in ScoreValues} \cup {UnknownStr}

\* the mutant: a strict comparison
ScoreClearsStrictly(match_score, threshold) == match_score.v > threshold

\* listing['evaluation']['match_score'] >= threshold, for a numeric score
ScoreClears(match_score, threshold) == match_score.v >= threshold

\* sorted(.., key=match_score, reverse=True): the highest score first, equal
\* scores in their input order
RECURSIVE SortedByScore(_)
SortedByScore(listings) ==
    IF listings = <<>> THEN <<>>
    ELSE LET best == CHOOSE i \in 1..Len(listings) :
                        \A j \in 1..Len(listings) :
                            \/ listings[j].evaluation.match_score.v < listings[i].evaluation.match_score.v
                            \/ (listings[j].evaluation.match_score.v = listings[i].evaluation.match_score.v
                                  /\ i <= j)
         IN <<listings[best]>> \o
            SortedByScore(SubSeq(listings, 1, best - 1) \o SubSeq(listings, best + 1, Len(listings)))

\* the mutant: the matches are returned best score first
GetProductionListingsSorted(recommended_listings, threshold) ==
    IF \E i \in 1..Len(recommended_listings) :
           recommended_listings[i].evaluation.match_score.type # "float"
    THEN [raised |-> TRUE, value |-> <<>>]
    ELSE [raised |-> FALSE,
          value |-> SortedByScore(SelectSeq(recommended_listings,
                       LAMBDA l : ScoreClears(l.evaluation.match_score, threshold)))]

\* the list comprehension: comparing a str with a float raises TypeError
GetProductionListings(recommended_listings, threshold) ==
    IF \E i \in 1..Len(recommended_listings) :
           recommended_listings[i].evaluation.match_score.type # "float"
    THEN [raised |-> TRUE, value |-> <<>>]
    ELSE [raised |-> FALSE,
          value |-> SelectSeq(recommended_listings,
                       LAMBDA l : ScoreClears(l.evaluation.match_score, threshold))]

(***************************************************************************)
(* Strings and create_search_hash                                          *)
(***************************************************************************)
\* the mutant: letters keep their case
LowerCharKeep(c) == c

\* a string is its sequence of characters; None and "" are both <<>>
LowerChar(c) == IF c = "B" THEN "b" ELSE IF c = "K" THEN "k" ELSE c

\* str.lower()
Lower(s) == [i \in 1..Len(s) |-> LowerChar(s[i])]

\* the mutant: the coarse key, without owner and task
CreateSearchHashCoarse(query, location, distance, user_id, task_id) ==
    [md5 |-> Lower(query) \o <<"_">> \o location \o <<"_">> \o distance]

\* hashlib.md5 of the joined fields; the digest is kept as the string it
\* was taken of
CreateSearchHash(query, location, distance, user_id, task_id) ==
    LET base == Lower(query) \o <<"_">> \o location \o <<"_">> \o distance IN
    IF user_id # <<>> /\ task_id # <<>>
    THEN [md5 |-> base \o <<"_">> \o user_id \o <<"_">> \o task_id]
    ELSE IF user_id # <<>>
    THEN [md5 |-> base \o <<"_">> \o user_id]
    ELSE [md5 |-> base]

(***************************************************************************)
(* llm_evaluate_listing                                                    *)
(***************************************************************************)
\* what the chat completion call does: raise, answer text without a JSON
\* object, or answer a JSON object with or without a match_score
RaiseReply == [kind |-> "raise", has_score |-> FALSE, score |-> 0]
TextReply == [kind |-> "text", has_score |-> FALSE, score |-> 0]
NoScoreReply == [kind |-> "json", has_score |-> FALSE, score |-> 0]
ScoreReply(v) == [kind |-> "json", has_score |-> TRUE, score |-> v]

\* the three fallback returns
FallbackEvaluation == [match_score |-> Num(NeutralScore), fallback |-> TRUE]

\* the mutant: a JSON object without match_score gets the neutral score
LlmEvaluateListingChecked(client_ok, reply) ==
    IF ~client_ok \/ reply.kind # "json" \/ ~reply.has_score
    THEN FallbackEvaluation
    ELSE [match_score |-> Num(reply.score), fallback |-> FALSE]

\* llm_evaluate_listing: no client, an exception and a reply that is not
\* JSON give the neutral fallback; a JSON object is returned as parsed, its
\* missing fields set to 'Unknown'
LlmEvaluateListing(client_ok, reply) ==
    IF ~client_ok THEN FallbackEvaluation
    ELSE IF reply.kind # "json" THEN FallbackEvaluation
    ELSE IF ~reply.has_score THEN [match_score |-> UnknownStr, fallback |-> FALSE]
    ELSE [match_score |-> Num(reply.score), fallback |-> FALSE]

(***************************************************************************)
(* Seen-Set store: get_seen_listing_ids, save_listing_ids                  *)
(***************************************************************************)
\* a document of the seen_listings collection
NoDoc == [exists |-> FALSE, listing_ids |-> <<>>, last_updated |-> 0]

\* list(set(...)): the elements once each, in some order
RECURSIVE SetToSeq(_)
SetToSeq(S) ==
    IF S = {} THEN <<>>
    ELSE LET x == CHOOSE y \in S : TRUE IN <<x>> \o SetToSeq(S \ {x})

\* the mutant: a document that does not exist reads as one stale identity
GetSeenListingIdsStale(client_ok, read_ok, doc) ==
    IF ~client_ok \/ ~read_ok THEN <<>>
    ELSE IF doc.exists THEN doc.listing_ids
    ELSE <<ListingId("dom", 0, 0, 0)>>

\* get_seen_listing_ids: [] without a client, on an exception and for a
\* document that does not exist
GetSeenListingIds(client_ok, read_ok, doc) ==
    IF ~client_ok \/ ~read_ok THEN <<>>
    ELSE IF doc.exists THEN doc.listing_ids
    ELSE <<>>

\* the mutant: the new ids replace the stored ones (the legacy store)
AllIdsToStoreOverwrite(existing_ids, listing_ids) == listing_ids

\* all_ids = list(set(existing_ids + listing_ids))
AllIdsToStore(existing_ids, listing_ids) ==
    SetToSeq(Range(existing_ids \o listing_ids))

(***************************************************************************)
(* format_llm_query, send_notification_via_discord                         *)
(***************************************************************************)
\* the keywords the model extracts from the user's query
Keywords(user_query) == SubSeq(user_query, 1, 1)

\* format_llm_query: the user's query without a client or on an exception,
\* else the model's keywords
FormatLlmQuery(client_ok, reply_ok, user_query) ==
    IF client_ok /\ reply_ok THEN Keywords(user_query) ELSE user_query

\* send_notification_via_discord with a webhook configured and matches to
\* send: True on HTTP 204, False on another status or an exception
NotifyOutcomes == {"204", "http_error", "exception"}
SendNotificationViaDiscord(outcome) == outcome = "204"

\* STRICTNESS_THRESHOLDS[user_strictness]; 0 stands for KeyError
StrictnessNames == {"less_strict", "strict", "very_strict"}
StrictnessThreshold(name) ==
    IF name = "less_strict" THEN LessStrict
    ELSE IF name = "strict" THEN Strict
    ELSE IF name = "very_strict" THEN VeryStrict
    ELSE 0

(***************************************************************************)
(* State                                                                   *)
(***************************************************************************)
VARIABLES
    call,           \* arguments of a function checked on its own
    ret,            \* its result
    page,           \* the upstream search result page
    seen_listings,  \* Firestore collection 'seen_listings': hash -> document
    task,           \* the monitored task: its document and job payload
    run,            \* executions of craigslist_bot_entry_point
    invocations     \* requests made to the entry point so far

vars == <<call, ret, page, seen_listings, task, run, invocations>>

fnVars == <<call, ret>>
sysVars == <<page, seen_listings, task, run, invocations>>

NoCall == [fn |-> "none"]
NoRet == [done |-> FALSE]

\* the one monitored task of the run specifications
UserId == <<"u">>
TaskId == <<"u", "_", "1">>
UserQuery == <<"B", "k">>
Location == <<"9">>
Distance == <<"5">>

Runs == {"r1", "r2"}

\* no task yet: the fields of the user_tasks document that the runs use,
\* the state of the task's Cloud Scheduler job, the position of the
\* background thread create_user_task starts, and the last API result
NoTask ==
    [exists |-> FALSE, strictness |-> "strict", enable_initial_scrape |-> TRUE,
     initial_scrape_count |-> 0, is_active |-> TRUE,
     job |-> "none", thread |-> "none", api_result |-> "none"]

\* the execution a background thread of the task API posts for, and the one
\* the scheduler job posts for
ThreadRun == "r1"
SchedulerRun == "r2"

\* the log entry an execution hands to update_task_stats with its result,
\* without the run count of its message
NoLog == [message |-> "none", level |-> "none"]
LogEntry(message, level) == [message |-> message, level |-> level]

\* the locals of one execution of the entry point
IdleRun ==
    [pc |-> "idle",
     strictness |-> "strict", enable_initial_scrape |-> TRUE,
     initial_scrape_count |-> 0, seed_seen_set |-> FALSE,
     firestore |-> TRUE, openai |-> TRUE, salt |-> 0,
     search_hash |-> [md5 |-> <<>>],
     seen_ids |-> {}, is_initial_run |-> FALSE,
     listings |-> <<>>, evaluated |-> <<>>, recommended |-> <<>>,
     notification_sent |-> FALSE,
     save_arg |-> <<>>, save_from |-> "none", existing_ids |-> <<>>,
     save_success |-> FALSE,
     status |-> 0, message |-> "none", error |-> "none", new_listings |-> 0,
     log |-> NoLog]

Hashes ==
    {CreateSearchHash(q, Location, Distance, UserId, TaskId) :
        q \in {UserQuery, Keywords(UserQuery)}}

ListingIdsOf(listings) == [i \in 1..Len(listings) |-> listings[i].id]

(***************************************************************************)
(* craigslist_bot_entry_point, step by step                                *)
(***************************************************************************)
\* return {'statusCode': .., 'body': {..}}
Return(rec, status, message, new_listings) ==
    [rec EXCEPT !.pc = "done", !.status = status, !.message = message,
                !.new_listings = new_listings]

\* the outer except: statusCode 500 and the exception in the body
Fail(rec, exception) ==
    [rec EXCEPT !.pc = "done", !.status = 500, !.error = exception,
                !.message = "Craigslist bot execution failed"]

\* save_listing_ids returns success; the entry point ignores it and returns
\* the response of the branch that made the call
ReturnAfterSave(rec, success) ==
    LET r2 == [rec EXCEPT !.save_success = success] IN
    IF rec.save_from = "seed"
    THEN Return([r2 EXCEPT !.log = LogEntry("Seeding completed - monitoring from now", "success")],
                200, "Seeding completed successfully", 0)
    ELSE IF rec.save_from = "no_new"
    THEN Return([r2 EXCEPT !.log = LogEntry("No new posts found", "warning")],
                200, "No new listings found - all listings have been processed previously", 0)
    ELSE Return(r2, 200, "Craigslist bot execution completed", Len(rec.listings))

\* the mutant: an empty list is merged like any other
SaveEntryAlways(rec, listing_ids, from) ==
    LET r2 == [rec EXCEPT !.save_arg = listing_ids, !.save_from = from] IN
    IF ~rec.firestore
    THEN ReturnAfterSave(r2, FALSE)
    ELSE [r2 EXCEPT !.pc = "save_get"]

\* save_listing_ids up to its first store access: False without a client,
\* True for an empty list, else on to doc_ref.get()
SaveEntry(rec, listing_ids, from) ==
    LET r2 == [rec EXCEPT !.save_arg = listing_ids, !.save_from = from] IN
    IF ~rec.firestore \/ listing_ids = <<>>
    THEN ReturnAfterSave(r2, rec.firestore)
    ELSE [r2 EXCEPT !.pc = "save_get"]

\* the request arrives: initialize_clients, the configuration is read, the
\* query refined, the task document read for its run count (an exception
\* reaches the outer except), the search hash computed and the task's
\* is_active flag checked (an exception there is only logged)
InvokeRun(r, seed_seen_set, firestore, openai, reply_ok, salt, task_ok, check_ok) ==
    /\ run[r].pc \in {"idle", "done"}
    /\ invocations < MaxInvocations
    /\ invocations' = invocations + 1
    /\ LET rec == [IdleRun EXCEPT
                      !.strictness = task.strictness,
                      !.enable_initial_scrape = task.enable_initial_scrape,
                      !.initial_scrape_count = task.initial_scrape_count,
                      !.seed_seen_set = seed_seen_set,
                      !.firestore = firestore, !.openai = openai, !.salt = salt,
                      !.search_hash = CreateSearchHash(
                          FormatLlmQuery(openai, reply_ok, UserQuery),
                          Location, Distance, UserId, TaskId)]
       IN run' = [run EXCEPT ![r] =
             IF ~task_ok
             THEN Fail(rec, "task_read")
             ELSE IF check_ok /\ ~task.is_active
             THEN Return(rec, 200, "Task is paused - skipping execution", 0)
             ELSE [rec EXCEPT !.pc = "get_seen"]]

Invoke(r, seed_seen_set, firestore, openai, reply_ok, salt, task_ok, check_ok) ==
    /\ InvokeRun(r, seed_seen_set, firestore, openai, reply_ok, salt, task_ok, check_ok)
    /\ UNCHANGED <<page, seen_listings, task, fnVars>>

\* is_initial_run = enable_initial_scrape and len(seen_ids) == 0; the
\* request's is_initial_scrape is read into a local and not used
IsInitialRun(enable_initial_scrape, is_initial_scrape, seen_ids) ==
    enable_initial_scrape /\ seen_ids = {}

\* seen_ids = set(get_seen_listing_ids(search_hash)); then the seeding
\* branch or the choice of the mode
GetSeen(r, read_ok) ==
    /\ run[r].pc = "get_seen"
    /\ LET rec == run[r]
           seen == Range(GetSeenListingIds(rec.firestore, read_ok,
                                           seen_listings[rec.search_hash]))
       IN run' = [run EXCEPT ![r] =
             [rec EXCEPT
                 !.seen_ids = seen,
                 !.is_initial_run = IsInitialRun(rec.enable_initial_scrape,
                                                 ~rec.seed_seen_set, seen),
                 !.pc = IF rec.seed_seen_set THEN "seed_scrape" ELSE "scrape"]]
    /\ UNCHANGED <<page, seen_listings, task, invocations, fnVars>>

\* the mutant: seeding stores the identity of every item of the page
SeedScrapeAll(r, page_ok, fails) ==
    /\ run[r].pc = "seed_scrape"
    /\ LET rec == run[r]
           temp == ScrapeNewListingsData(page_ok, page.kind, page.items,
                                         TRUE, MaxItems, {}, fails, rec.salt)
       IN run' = [run EXCEPT ![r] =
             IF temp # <<>>
             THEN SaveEntry(rec, ListingIdsOf(temp), "seed")
             ELSE Return(rec, 200, "No listings found for seeding", 0)]
    /\ UNCHANGED <<page, seen_listings, task, invocations, fnVars>>

\* seeding mode: scrape_new_listings_data(search_url, True, 1, None), then
\* save_listing_ids(search_hash, [most_recent_id])
SeedScrape(r, page_ok, fails) ==
    /\ run[r].pc = "seed_scrape"
    /\ LET rec == run[r]
           temp == ScrapeNewListingsData(page_ok, page.kind, page.items,
                                         TRUE, 1, {}, fails, rec.salt)
       IN run' = [run EXCEPT ![r] =
             IF temp # <<>>
             THEN SaveEntry(rec, <<temp[1].id>>, "seed")
             ELSE Return(rec, 200, "No listings found for seeding", 0)]
    /\ UNCHANGED <<page, seen_listings, task, invocations, fnVars>>

\* the mutant: the identities are marked as soon as they are discovered
AfterScrapeMarking(rec, listings, stats_ok) ==
    SaveEntry([rec EXCEPT !.listings = listings], ListingIdsOf(listings), "end")

\* what the entry point does with the result of the crawl: on to the
\* evaluation, or one of the two early returns, each reading the task
\* document for its statistics outside any try of its own
AfterScrape(rec, listings, stats_ok) ==
    LET r2 == [rec EXCEPT !.listings = listings] IN
    IF listings # <<>>
    THEN [r2 EXCEPT !.pc = "evaluate"]
    ELSE IF ~stats_ok
    THEN Fail(r2, "task_read")
    ELSE IF ~rec.is_initial_run /\ rec.seen_ids # {}
    THEN SaveEntry(r2, <<>>, "no_new")
    ELSE Return([r2 EXCEPT !.log = LogEntry("No posts found", "success")],
                200, "No listings found - search criteria may need adjustment", 0)

\* listings = scrape_new_listings_data(search_url, is_initial_run,
\* initial_scrape_count, seen_ids) and what follows it
Scrape(r, page_ok, fails, stats_ok) ==
    /\ run[r].pc = "scrape"
    /\ LET rec == run[r]
           listings == ScrapeNewListingsData(page_ok, page.kind, page.items,
                           rec.is_initial_run, rec.initial_scrape_count,
                           rec.seen_ids, fails, rec.salt)
       IN run' = [run EXCEPT ![r] = AfterScrape(rec, listings, stats_ok)]
    /\ UNCHANGED <<page, seen_listings, task, invocations, fnVars>>

\* the mutant: the first listing is evaluated a second time
EvaluateAgain(r, replies) ==
    /\ run[r].pc = "evaluate"
    /\ LET rec == run[r]
           once == [i \in 1..Len(rec.listings) |->
                      [id |-> rec.listings[i].id, posting |-> rec.listings[i].posting,
                       evaluation |-> LlmEvaluateListing(rec.openai, replies[i])]]
       IN run' = [run EXCEPT ![r] =
             [rec EXCEPT !.pc = "filter", !.evaluated = once \o <<once[1]>>]]
    /\ UNCHANGED <<page, seen_listings, task, invocations, fnVars>>

\* for listing in new_listings: evaluation = llm_evaluate_listing(..)
Evaluate(r, replies) ==
    /\ run[r].pc = "evaluate"
    /\ LET rec == run[r] IN
       run' = [run EXCEPT ![r] =
          [rec EXCEPT
              !.pc = "filter",
              !.evaluated = [i \in 1..Len(rec.listings) |->
                  [id |-> rec.listings[i].id, posting |-> rec.listings[i].posting,
                   evaluation |-> LlmEvaluateListing(rec.openai, replies[i])]]]]
    /\ UNCHANGED <<page, seen_listings, task, invocations, fnVars>>

\* the threshold lookup, get_production_listings, the notification, the
\* read of the task document for the statistics and the call of
\* save_listing_ids; KeyError, TypeError and a failed read reach the outer
\* except
FilterNotify(r, outcome, stats_ok) ==
    /\ run[r].pc = "filter"
    /\ LET rec == run[r]
           threshold == StrictnessThreshold(rec.strictness)
           filtered == GetProductionListings(rec.evaluated, threshold)
       IN run' = [run EXCEPT ![r] =
             IF rec.strictness \notin StrictnessNames
             THEN Fail(rec, "KeyError")
             ELSE IF filtered.raised
             THEN Fail(rec, "TypeError")
             ELSE LET r2 == [rec EXCEPT
                               !.recommended = filtered.value,
                               !.notification_sent =
                                   filtered.value # <<>> /\ SendNotificationViaDiscord(outcome)]
                      log == IF filtered.value = <<>>
                             THEN LogEntry("No posts found", "info")
                             ELSE LogEntry("Found matches", "success")
                  IN IF ~stats_ok
                     THEN Fail(r2, "task_read")
                     ELSE SaveEntry([r2 EXCEPT !.log = log], ListingIdsOf(rec.listings), "end")]
    /\ UNCHANGED <<page, seen_listings, task, invocations, fnVars>>

\* save_listing_ids: existing_doc = doc_ref.get()
SaveGet(r, get_ok) ==
    /\ run[r].pc = "save_get"
    /\ LET rec == run[r]
           doc == seen_listings[rec.search_hash]
       IN run' = [run EXCEPT ![r] =
             IF get_ok
             THEN [rec EXCEPT !.pc = "save_set",
                              !.existing_ids = IF doc.exists THEN doc.listing_ids ELSE <<>>]
             ELSE ReturnAfterSave(rec, FALSE)]
    /\ UNCHANGED <<page, seen_listings, task, invocations, fnVars>>

\* firestore.SERVER_TIMESTAMP, the time of the write: time is counted in
\* requests made so far
ServerTimestamp == invocations

\* save_listing_ids: doc_ref.set({'listing_ids': all_ids, 'last_updated': ..})
SaveSet(r, set_ok) ==
    /\ run[r].pc = "save_set"
    /\ LET rec == run[r] IN
       /\ seen_listings' =
             IF set_ok
             THEN [seen_listings EXCEPT ![rec.search_hash] =
                      [exists |-> TRUE,
                       listing_ids |-> AllIdsToStore(rec.existing_ids, rec.save_arg),
                       last_updated |-> ServerTimestamp]]
             ELSE seen_listings
       /\ run' = [run EXCEPT ![r] = ReturnAfterSave(rec, set_ok)]
    /\ UNCHANGED <<page, task, invocations, fnVars>>

(***************************************************************************)
(* The upstream site                                                       *)
(***************************************************************************)
\* A new posting appears at the top of the result page. A run reads the
\* page once, in its scrape step, so postings between two steps of a run are
\* not distinguished from postings before it.
Post ==
    /\ page.posted < MaxItems
    /\ \A r \in Runs : run[r].pc \in {"idle", "done"}
    /\ page' = [page EXCEPT !.posted = @ + 1, !.items = <<page.posted + 1>> \o @]
    /\ UNCHANGED <<seen_listings, task, run, invocations, fnVars>>

(***************************************************************************)
(* Spec: runs of the entry point, one after another, for one task, against *)
(* a changing result page, with every failure the code handles             *)
(***************************************************************************)
Replies == {RaiseReply, TextReply, NoScoreReply, ScoreReply(30), ScoreReply(100)}

\* the task as create_user_task stored it
TaskConfigs ==
    {[NoTask EXCEPT !.exists = TRUE, !.job = "enabled", !.strictness = strictness,
                    !.enable_initial_scrape = enable_initial_scrape,
                    !.initial_scrape_count = initial_scrape_count] :
        strictness \in {"less_strict", "strict", "lenient"},
        enable_initial_scrape \in BOOLEAN,
        initial_scrape_count \in 1..(MaxItems - 1)}

Init ==
    /\ call = NoCall
    /\ ret = NoRet
    /\ page \in [kind : PageKinds, items : {<<>>}, posted : {0}]
    /\ seen_listings = [h \in Hashes |-> NoDoc]
    /\ task \in TaskConfigs
    /\ run = [r \in Runs |-> IdleRun]
    /\ invocations = 0

\* a request of the scheduler job, or of the seeding thread of a task
\* created without an initial scrape
Request ==
    \E seed_seen_set \in {FALSE, ~task.enable_initial_scrape},
       firestore \in BOOLEAN, openai \in BOOLEAN,
       salt \in (IF page.kind = "json_ld" THEN Salts ELSE {0}),
       task_ok \in BOOLEAN :
        Invoke("r1", seed_seen_set, firestore, openai, TRUE, salt, task_ok, TRUE)

Next ==
    \/ Post
    \/ Request
    \/ \E read_ok \in BOOLEAN : GetSeen("r1", read_ok)
    \/ \E page_ok \in BOOLEAN, fails \in SUBSET (1..Len(page.items)) : SeedScrape("r1", page_ok, fails)
    \/ \E page_ok \in BOOLEAN, fails \in SUBSET (1..Len(page.items)), stats_ok \in BOOLEAN :
          Scrape("r1", page_ok, fails, stats_ok)
    \/ \E replies \in [1..Len(run["r1"].listings) -> Replies] : Evaluate("r1", replies)
    \/ \E outcome \in NotifyOutcomes, stats_ok \in BOOLEAN : FilterNotify("r1", outcome, stats_ok)
    \/ \E get_ok \in BOOLEAN : SaveGet("r1", get_ok)
    \/ \E set_ok \in BOOLEAN : SaveSet("r1", set_ok)

Spec == Init /\ [][Next]_vars

(***************************************************************************)
(* Claims about runs of the entry point (Spec)                             *)
(***************************************************************************)
Min(a, b) == IF a < b THEN a ELSE b

\* the listing a run makes of the item at rank i (1-based) of the page
RunListingAt(r, i) ==
    [id |-> ListingId(page.kind, i - 1, page.items[i], run[r].salt),
     posting |-> page.items[i]]

\* newest first: a page is strictly decreasing in posting number
NewestFirst(listings) ==
    \A a \in 1..Len(listings), b \in 1..Len(listings) :
        a < b => listings[a].posting > listings[b].posting

\* the scrape step of an initial run returns the items among the L top-ranked
\* that were processed without error, all of them and in rank order
InitialScrapeBounded(r) ==
    \A page_ok \in BOOLEAN, fails \in SUBSET (1..Len(page.items)), stats_ok \in BOOLEAN :
        (run[r].is_initial_run /\ Scrape(r, page_ok, fails, stats_ok)) =>
            LET L == run[r].initial_scrape_count
                K == IF page_ok
                     THEN {i \in 1..Min(L, Len(page.items)) : i \notin fails}
                     ELSE {}
                listings == run'[r].listings
            IN /\ Len(listings) <= L
               /\ Len(listings) = Cardinality(K)
               /\ Range(listings) = {RunListingAt(r, i) : i \in K}
               /\ NewestFirst(listings)

\* once the evaluation loop is over, there is one evaluation per listing
AllEvaluated(r) ==
    (run[r].pc \in {"filter", "save_get", "save_set", "done"} /\ run[r].listings # <<>>) =>
        /\ Len(run[r].evaluated) = Len(run[r].listings)
        /\ \A i \in 1..Len(run[r].listings) :
              run[r].evaluated[i].id = run[r].listings[i].id

\* C7: an initial run with limit L returns at most L listings, namely the
\* items among the L top-ranked of the page that were processed without
\* error; it returns all of them (it never stops early, whatever the stored
\* Seen-Set holds), and every returned listing is evaluated.
C7_InitialRunBounded ==
    /\ [][\A r \in Runs : InitialScrapeBounded(r)]_vars
    /\ [](\A r \in Runs : run[r].is_initial_run => AllEvaluated(r))

\* a page of more items than the limit: the run took the top L and evaluated
\* them
C7_Witness ==
    /\ run["r1"].is_initial_run /\ run["r1"].pc = "filter"
    /\ Len(page.items) > run["r1"].initial_scrape_count
    /\ Len(run["r1"].listings) = run["r1"].initial_scrape_count
    /\ run["r1"].listings[1].posting = page.items[1]
    /\ Len(run["r1"].evaluated) = Len(run["r1"].listings)

\* the identities stored for the run's fingerprint
StoredIds(r) == Range(seen_listings[run[r].search_hash].listing_ids)

\* C8 as stated: without an override (initial scrape enabled, no seeding) a
\* run is an InitialRun exactly when the Seen-Set stored for its fingerprint
\* is empty.
C8_ModeSelection ==
    \A r \in Runs :
        (run[r].pc = "scrape" /\ run[r].enable_initial_scrape /\ ~run[r].seed_seen_set) =>
            (run[r].is_initial_run <=> StoredIds(r) = {})

\* C10 as stated: whatever the scorer does, every evaluated listing carries
\* a numeric score, and a run that evaluated listings does not end in the
\* error the scorer's output caused but completes and merges its identities.
C10_ScorerNeverAborts ==
    \A r \in Runs :
        /\ \A i \in 1..Len(run[r].evaluated) :
              run[r].evaluated[i].evaluation.match_score.type = "float"
        /\ (run[r].pc = "done" /\ run[r].evaluated # <<>>
                /\ run[r].error \notin {"KeyError", "task_read"}) =>
              (run[r].status = 200 /\ run[r].save_from = "end")

\* the identities of the listings a run has an evaluation for
EvaluatedIds(r) == {run[r].evaluated[i].id : i \in 1..Len(run[r].evaluated)}

\* a step that changes the document of a fingerprint is the set() of a run
\* on that fingerprint that ends with status 200 and, unless the run is a
\* seeding run, writes identities of listings the scorer was invoked for
WritesOnlyEvaluated ==
    \A h \in DOMAIN seen_listings :
        seen_listings'[h] # seen_listings[h] =>
            \E r \in Runs :
                /\ run[r].pc = "save_set" /\ run[r].search_hash = h
                /\ run'[r].pc = "done" /\ run'[r].status = 200
                /\ run[r].save_from # "seed" =>
                      /\ Len(run[r].evaluated) = Len(run[r].listings)
                      /\ Range(run[r].save_arg) \subseteq EvaluatedIds(r)

FetchedIds(r) == Range(ListingIdsOf(run[r].listings))

\* a non-seeding run that went through evaluation, filter and notification
\* and returned its normal response
CompletedNormally(r) ==
    /\ run[r].pc = "done" /\ run[r].status = 200
    /\ run[r].message = "Craigslist bot execution completed"

\* C12 as stated: after a normally completed non-seeding run the identity
\* of every listing it fetched is in the Seen-Set of its fingerprint.
C12_FetchedAreSeen ==
    \A r \in Runs : CompletedNormally(r) => FetchedIds(r) \subseteq StoredIds(r)

\* the identity a run gives the top-ranked item of the page
TopId(r) == ListingId(page.kind, 0, page.items[1], run[r].salt)

\* a seeding run evaluates, recommends, notifies and reports nothing, and
\* if it calls save_listing_ids then with the top-ranked identity alone
SeedingRunFrame(r) ==
    (run[r].seed_seen_set /\ run[r].pc # "idle") =>
        /\ run[r].listings = <<>> /\ run[r].evaluated = <<>>
        /\ run[r].recommended = <<>> /\ ~run[r].notification_sent
        /\ run[r].new_listings = 0
        /\ run[r].save_from \in {"none", "seed"}
        /\ Len(run[r].save_arg) <= 1
        /\ run[r].save_from = "seed" => Len(run[r].save_arg) = 1
        /\ run[r].pc \in {"save_get", "save_set"} =>
              (page.items # <<>> /\ run[r].save_arg = <<TopId(r)>>)

\* the crawl of a seeding run hands over the top-ranked item exactly when
\* the page was fetched, has an item and that item raised no error
SeedingFetch(r) ==
    \A page_ok \in BOOLEAN, fails \in SUBSET (1..Len(page.items)) :
        SeedScrape(r, page_ok, fails) =>
            ((page_ok /\ page.items # <<>> /\ 1 \notin fails) <=> run'[r].save_from = "seed")

\* the write of a seeding run adds the top-ranked identity and nothing else
SeedingWrite(r) ==
    (run[r].seed_seen_set /\ SaveSet(r, TRUE)) =>
        /\ Range(seen_listings'[run[r].search_hash].listing_ids) =
              Range(run[r].existing_ids) \cup {TopId(r)}
        /\ \A h \in DOMAIN seen_listings :
              h # run[r].search_hash => seen_listings'[h] = seen_listings[h]

\* C13 as stated: a run with the seed flag set that got as far as the
\* crawl fetches exactly one item.
C13_AsStated ==
    \A r \in Runs :
        (run[r].seed_seen_set /\ run[r].pc = "done" /\ run[r].status = 200
            /\ run[r].message # "Task is paused - skipping execution") =>
                Len(run[r].save_arg) = 1

\* C13: a seeding run fetches at most one item, the top-ranked one, and
\* fetches it exactly when the page was fetched, has an item and that item
\* raised no error; it hands only that identity to save_listing_ids, whose
\* write adds nothing else to the Seen-Set; it never invokes the scorer,
\* sends no notification and reports zero new and zero matched listings.
C13_SeedingFrame ==
    /\ [](\A r \in Runs : SeedingRunFrame(r))
    /\ [][\A r \in Runs : SeedingFetch(r) /\ SeedingWrite(r)]_vars

\* a seeding run on a page of two items or more stored the top-ranked
\* identity alone
C13_Witness ==
    /\ run["r1"].seed_seen_set /\ run["r1"].pc = "done"
    /\ run["r1"].save_from = "seed" /\ run["r1"].save_success
    /\ Len(page.items) >= 2
    /\ StoredIds("r1") = {TopId("r1")}
    /\ run["r1"].message = "Seeding completed successfully"

\* what a run reports: the response and the log entry of the task
Outcome(rec) == <<rec.status, rec.message, rec.new_listings, rec.error, rec.log>>

\* the run as it continues after a crawl whose fetch of the search page
\* failed, and after a crawl that fetched a page without items
AfterFetchFailure(r) ==
    AfterScrape(run[r],
                ScrapeNewListingsData(FALSE, page.kind, page.items,
                    run[r].is_initial_run, run[r].initial_scrape_count,
                    run[r].seen_ids, {}, run[r].salt),
                TRUE)
AfterEmptyPage(r) ==
    AfterScrape(run[r],
                ScrapeNewListingsData(TRUE, page.kind, <<>>,
                    run[r].is_initial_run, run[r].initial_scrape_count,
                    run[r].seen_ids, {}, run[r].salt),
                TRUE)

\* C14 as stated: a run whose fetch of the search page fails reports an
\* outcome (status, message, log entry) that differs from the outcome of
\* the same run on a page that was fetched and has no items.
C14_FetchFailureDistinct ==
    \A r \in Runs :
        (run[r].pc = "scrape" /\ page.items # <<>>) =>
            Outcome(AfterFetchFailure(r)) # Outcome(AfterEmptyPage(r))

\* a run whose read of the Seen-Set fails is aborted there with a fatal
\* outcome
FailedReadAborts(r) ==
    GetSeen(r, FALSE) => (run'[r].pc = "done" /\ run'[r].status = 500)

\* a run whose save_listing_ids returned False does not report success
FailedWriteIsFatal(r) ==
    (run[r].pc = "done" /\ run[r].save_from # "none" /\ ~run[r].save_success) =>
        run[r].status # 200

\* C15 as stated: a failed read or write of the Seen-Set aborts the run
\* with a fatal outcome distinct from a successful run, and a failed read
\* is never treated as an empty Seen-Set.
C15_PersistenceFatal ==
    /\ [][\A r \in Runs : FailedReadAborts(r)]_vars
    /\ [](\A r \in Runs : FailedWriteIsFatal(r))

\* C16 as stated: a run configured with a strictness name outside
\* {less_strict, strict, very_strict} is rejected before it fetches,
\* invokes the scorer, notifies or writes to the Seen-Set.
C16_ConfigRejectedBeforeFetch ==
    \A r \in Runs :
        run[r].strictness \notin StrictnessNames =>
            /\ run[r].pc \notin {"evaluate", "filter", "save_get", "save_set"}
            /\ run[r].listings = <<>> /\ run[r].evaluated = <<>>
            /\ run[r].save_from = "none"

\* a finished run whose evaluation completed and whose matches were handed
\* to the notifier
NotifierCalled(r) ==
    /\ run[r].pc = "done"
    /\ Len(run[r].evaluated) = Len(run[r].listings)
    /\ run[r].recommended # <<>>

\* C17 as stated: in every run where evaluation completed, whatever the
\* notifier did, the identities of the fetched listings are merged into the
\* Seen-Set and the run reports its outcome with the delivery result.
C17_NotificationNeverBlocks ==
    \A r \in Runs :
        NotifierCalled(r) =>
            (run[r].status = 200 /\ FetchedIds(r) \subseteq StoredIds(r))

\* evaluated_listings has one entry per call of llm_evaluate_listing: the
\* calls made so far are for the listings the crawl returned, one each, in
\* their order
OnceEach(r) ==
    \/ run[r].evaluated = <<>>
    \/ /\ Len(run[r].evaluated) = Len(run[r].listings)
       /\ \A i \in 1..Len(run[r].listings) :
             /\ run[r].evaluated[i].id = run[r].listings[i].id
             /\ run[r].evaluated[i].posting = run[r].listings[i].posting
       /\ \A i \in 1..Len(run[r].evaluated), j \in 1..Len(run[r].evaluated) :
             i # j => run[r].evaluated[i].posting # run[r].evaluated[j].posting

\* past the evaluation loop no returned listing is left without a call
NoneLeftOut(r) ==
    (run[r].pc \in {"filter", "save_get", "save_set"} /\ ~run[r].seed_seen_set) =>
        (run[r].listings # <<>> /\ Len(run[r].evaluated) = Len(run[r].listings))

\* C18: in a non-seeding run llm_evaluate_listing is called exactly once
\* for each listing the crawl returned, and for no other item of the page
\* (the items at and after the early stop are not among them).
C18_ScorerOncePerListing ==
    \A r \in Runs : OnceEach(r) /\ NoneLeftOut(r)

\* an incremental run that stopped early: the page has more items than the
\* crawl returned, and the scorer was called for the one returned listing
C18_Witness ==
    /\ run["r1"].pc = "filter" /\ ~run["r1"].is_initial_run
    /\ run["r1"].seen_ids # {}
    /\ Len(page.items) >= 2 /\ Len(run["r1"].listings) = 1
    /\ Len(run["r1"].evaluated) = 1
    /\ run["r1"].evaluated[1].posting = page.items[1]

\* the ranks of the page a run scans, and among those that raise no error
\* the ones where the scan stops
ScannedRanks(r) ==
    1..Len(LimitElements(page.items, run[r].is_initial_run, run[r].initial_scrape_count))
StopHits(r, fails) ==
    {k \in ScannedRanks(r) \ fails :
        ~run[r].is_initial_run /\ run[r].seen_ids # {}
            /\ RunListingAt(r, k).id \in run[r].seen_ids}

\* a crawl in which the items at the ranks `fails` raise: none of them is
\* returned, every other item ranked before the first stop is, and the run
\* goes on without an error
ItemErrorsLocal(r) ==
    \A fails \in SUBSET (1..Len(page.items)) :
        Scrape(r, TRUE, fails, TRUE) =>
            LET kept == {j \in ScannedRanks(r) \ fails : \A k \in StopHits(r, fails) : j < k}
                listings == run'[r].listings
            IN /\ Range(listings) = {RunListingAt(r, j) : j \in kept}
               /\ Len(listings) = Cardinality(kept)
               /\ \A i \in fails \cap ScannedRanks(r) :
                     RunListingAt(r, i).id \notin Range(ListingIdsOf(listings))
               /\ run'[r].status # 500 /\ run'[r].error = "none"

\* the identities a run hands to the merge at its end are those of the
\* listings the crawl returned
MergesReturnedOnly(r) ==
    run[r].save_from = "end" => Range(run[r].save_arg) = FetchedIds(r)

\* C24: when fetching or parsing an item raises, exactly that item is left
\* out of the result, the scan continues with the next-ranked item, the run
\* does not fail, and the run does not hand the item's identity to the
\* Seen-Set merge.
C24_ItemErrorsLocal ==
    /\ [][\A r \in Runs : ItemErrorsLocal(r)]_vars
    /\ [](\A r \in Runs : MergesReturnedOnly(r))

\* the second of three items raised: the run returned the first and the
\* third, completed, and did not store the identity of the second
C24_Witness ==
    /\ run["r1"].pc = "done" /\ run["r1"].status = 200 /\ run["r1"].save_success
    /\ Len(page.items) = 3 /\ Len(run["r1"].listings) = 2
    /\ run["r1"].listings[1].posting = page.items[1]
    /\ run["r1"].listings[2].posting = page.items[3]
    /\ RunListingAt("r1", 2).id \notin StoredIds("r1")

\* a finished incremental run with a non-empty Seen-Set whose crawl came
\* to the end of the page without a stop: it returned every item
NoStopHit(r) ==
    /\ run[r].pc = "done"
    /\ ~run[r].is_initial_run /\ run[r].seen_ids # {}
    /\ run[r].listings # <<>>
    /\ Len(run[r].listings) = Len(page.items)
    /\ \A i \in 1..Len(page.items) : run[r].listings[i].posting = page.items[i]

\* C25 as stated: an incremental run on a non-empty Seen-Set that meets no
\* seen identity completes with a normal outcome, reports every fetched
\* item as new and merges all their identities.
C25_NoStopHitCompletes ==
    \A r \in Runs :
        NoStopHit(r) =>
            /\ run[r].status = 200
            /\ run[r].new_listings = Len(run[r].listings)
            /\ FetchedIds(r) \subseteq StoredIds(r)

\* C29 as stated: every run of the task computes the same fingerprint, so
\* the Seen-Set documents its earlier runs wrote are all under the
\* fingerprint of the current run.
C29_FingerprintStable ==
    \A r \in Runs : run[r].pc # "idle" =>
        \A h \in DOMAIN seen_listings :
            seen_listings[h].exists => h = run[r].search_hash

\* the evaluated listings of a run whose score is a number at or above the
\* threshold of the run's strictness, in the order of evaluation
MatchesOf(r) ==
    SelectSeq(run[r].evaluated,
              LAMBDA l : /\ l.evaluation.match_score.type = "float"
                         /\ l.evaluation.match_score.v >= StrictnessThreshold(run[r].strictness))

\* C31 as stated: a run that evaluated its listings under a valid
\* strictness hands the notifier a list exactly when some evaluated listing
\* has a score at or above the threshold, and the list is that of the run's
\* matches.
C31_NotifiedIffMatch ==
    \A r \in Runs :
        (/\ run[r].pc \in {"save_get", "save_set", "done"}
         /\ run[r].evaluated # <<>>
         /\ run[r].strictness \in StrictnessNames) =>
            /\ run[r].recommended # <<>> <=> MatchesOf(r) # <<>>
            /\ run[r].recommended = MatchesOf(r)

\* run r is an incremental run about to crawl a page whose top-ranked item
\* has, for this run, an identity of its Seen-Set
TopItemSeen(r) ==
    /\ run[r].pc = "scrape" /\ ~run[r].is_initial_run
    /\ page.items # <<>>
    /\ ListingId(page.kind, 0, page.items[1], run[r].salt) \in run[r].seen_ids

\* the run ended with nothing fetched, scored or notified
NothingProcessed(rec) ==
    /\ rec.pc = "done" /\ rec.new_listings = 0
    /\ rec.listings = <<>> /\ rec.evaluated = <<>> /\ rec.recommended = <<>>
    /\ ~rec.notification_sent

SysUnused ==
    /\ page = [kind |-> "dom", items |-> <<>>, posted |-> 0]
    /\ seen_listings = [h \in Hashes |-> NoDoc]
    /\ task = NoTask
    /\ run = [r \in Runs |-> IdleRun]
    /\ invocations = 0

\* The scan only asks whether the identity computed at a position is in
\* seen_ids and whether seen_ids is empty. So seen_ids is drawn as the
\* identities of any set of positions of the page, with or without one stale
\* identity (a posting at a rank no page of this size has).
StaleId(kind, salt) == ListingId(kind, MaxItems, 1, salt)

SeenSetsFor(kind, items, salt) ==
    {{ListingId(kind, i - 1, items[i], salt) : i \in H} \cup E :
        H \in SUBSET (1..Len(items)), E \in {{}, {StaleId(kind, salt)}}}

ScrapeInit ==
    /\ \E kind \in PageKinds, items \in Pages, is_initial_run \in BOOLEAN,
          initial_scrape_count \in 0..MaxItems :
        \E seen_ids \in SeenSetsFor(kind, items, 0) :
            call = [fn |-> "scrape", kind |-> kind, items |-> items,
                    is_initial_run |-> is_initial_run,
                    initial_scrape_count |-> initial_scrape_count,
                    seen_ids |-> seen_ids, salt |-> 0]
    /\ ret = NoRet
    /\ SysUnused

\* one call; page_ok, fails: what the network does during it
ScrapeCall(page_ok, fails) ==
    /\ call.fn = "scrape"
    /\ ~ret.done
    /\ ret' = [done |-> TRUE, page_ok |-> page_ok, fails |-> fails,
               listings |-> ScrapeNewListingsData(page_ok, call.kind, call.items,
                               call.is_initial_run, call.initial_scrape_count,
                               call.seen_ids, fails, call.salt)]
    /\ UNCHANGED <<call, sysVars>>

ScrapeFetchFails == ScrapeCall(FALSE, {})

ScrapeFetchOk == \E fails \in SUBSET (1..Len(call.items)) : ScrapeCall(TRUE, fails)

ScrapeNext == ScrapeFetchFails \/ ScrapeFetchOk

SpecScrape == ScrapeInit /\ [][ScrapeNext]_vars

(***************************************************************************)
(* Claims about scrape_new_listings_data (SpecScrape)                      *)
(***************************************************************************)
\* the identity the call computes for the item at rank i (1-based)
IdAt(i) == ListingId(call.kind, i - 1, call.items[i], call.salt)

ListingAt(i) == [id |-> IdAt(i), posting |-> call.items[i]]

Least(S) == CHOOSE x \in S : \A y \in S : x <= y

\* ranks whose identity is in the Seen-Set passed to the call
SeenRanks == {i \in 1..Len(call.items) : IdAt(i) \in call.seen_ids}

\* a page is strictly decreasing, so rank order is decreasing posting number
InRankOrder(listings) ==
    \A a \in 1..Len(listings), b \in 1..Len(listings) :
        a < b => listings[a].posting > listings[b].posting

\* listings is exactly the items at the ranks K, in rank order
ReturnsRanks(listings, K) ==
    /\ Len(listings) = Cardinality(K)
    /\ Range(listings) = {ListingAt(i) : i \in K}
    /\ InRankOrder(listings)

IncrementalCallDone == ret.done /\ call.fn = "scrape" /\ ~call.is_initial_run

\* C1 as stated: an incremental scan stops at the first item whose identity
\* is in the Seen-Set and returns exactly the items ranked before it.
C1_AsStated ==
    (IncrementalCallDone /\ SeenRanks # {}) =>
        ReturnsRanks(ret.listings, 1..(Least(SeenRanks) - 1))

\* ranks processed without a per-item error whose identity is in the Seen-Set
StopRanks == {i \in SeenRanks : i \notin ret.fails}

\* C1 (amended): when the search page was fetched, an incremental scan stops
\* at the first item that is processed without a per-item error and whose
\* identity is in the Seen-Set; it returns exactly the items ranked before
\* that item that were processed without error (all such items of the page
\* when there is no such stop), and nothing at or after the stop.
C1_EarlyStop ==
    (IncrementalCallDone /\ ret.page_ok) =>
        LET stop == IF StopRanks = {} THEN Len(call.items) + 1 ELSE Least(StopRanks)
        IN ReturnsRanks(ret.listings, {i \in 1..(stop - 1) : i \notin ret.fails})

\* [A, B, C] with B seen: the scan stopped at rank 2 and returned [A]
C1_Witness ==
    /\ IncrementalCallDone /\ ret.page_ok /\ ret.fails = {}
    /\ Len(call.items) = 3
    /\ SeenRanks = {2, 3}
    /\ Len(ret.listings) = 1
    /\ ret.listings[1].posting = call.items[1]

(***************************************************************************)
(* SpecIdentity: the identities that scrapes by several processes give to  *)
(* the postings of a changing result page                                  *)
(***************************************************************************)
\* a posting leaves the result page; the postings below it move up
Expire(i) ==
    /\ i \in 1..Len(page.items)
    /\ \A r \in Runs : run[r].pc \in {"idle", "done"}
    /\ page' = [page EXCEPT !.items =
                   SubSeq(page.items, 1, i - 1) \o SubSeq(page.items, i + 1, Len(page.items))]
    /\ UNCHANGED <<seen_listings, task, run, invocations, fnVars>>

IdentityInit ==
    /\ call = [fn |-> "fetches"]
    /\ ret = [done |-> FALSE, ids |-> [p \in Postings |-> {}]]
    /\ page \in [kind : PageKinds, items : {<<>>}, posted : {0}]
    /\ seen_listings = [h \in Hashes |-> NoDoc]
    /\ task = NoTask
    /\ run = [r \in Runs |-> IdleRun]
    /\ invocations = 0

\* one scrape of the whole page by a process whose string hash has the given
\* salt; ret.ids collects the identities each posting has been given
IdentityFetch(salt) ==
    /\ page.items # <<>>
    /\ LET listings == ScrapeNewListingsData(TRUE, page.kind, page.items, TRUE,
                                             Len(page.items), {}, {}, salt)
       IN ret' = [done |-> TRUE,
                  ids |-> [p \in Postings |->
                             ret.ids[p] \cup {l.id : l \in {m \in Range(listings) : m.posting = p}}]]
    /\ UNCHANGED <<call, sysVars>>

IdentityNext ==
    \/ Post
    \/ \E i \in 1..MaxItems : Expire(i)
    \/ \E salt \in (IF page.kind = "json_ld" THEN Salts ELSE {0}) : IdentityFetch(salt)

SpecIdentity == IdentityInit /\ [][IdentityNext]_vars

\* C2 as stated: whatever its rank at fetch time and whichever process
\* fetches it, a posting is given one and the same identity in every fetch.
C2_IdentityStable ==
    \A p \in Postings : Cardinality(ret.ids[p]) <= 1

(***************************************************************************)
(* SpecStore: calls of save_listing_ids by two concurrent executions on    *)
(* one fingerprint, and by the legacy single-search bot on its own         *)
(***************************************************************************)
\* src/main.py: create_search_hash(query, location, distance)
LegacyCreateSearchHash(query, location, distance) ==
    [md5 |-> Lower(query) \o <<"_">> \o location \o <<"_">> \o distance]

\* src/main.py: save_listing_ids sets the document to the ids it is given
LegacyIdsToStore(listing_ids) == listing_ids

StoreHash == CreateSearchHash(Keywords(UserQuery), Location, Distance, UserId, TaskId)
LegacyHash == LegacyCreateSearchHash(UserQuery, Location, Distance)

\* identities written in SpecStore, and the lists of them a call is given
StoreIds == {ListingId("dom", 0, p, 0) : p \in Postings}
StoreLists == {SetToSeq(S) : S \in {T \in SUBSET StoreIds : Cardinality(T) <= 2}}

StoreDocs ==
    {NoDoc} \cup
    {[exists |-> TRUE, listing_ids |-> SetToSeq(S), last_updated |-> 0] :
        S \in {T \in SUBSET StoreIds : Cardinality(T) <= 1}}

StoreInit ==
    /\ call = NoCall
    /\ ret = NoRet
    /\ page = [kind |-> "dom", items |-> <<>>, posted |-> 0]
    /\ \E doc \in StoreDocs :
          seen_listings = [h \in {StoreHash, LegacyHash} |->
                              IF h = StoreHash THEN doc ELSE NoDoc]
    /\ task = NoTask
    /\ run = [r \in Runs |-> IdleRun]
    /\ invocations = 0

\* an execution reaches its call save_listing_ids(search_hash, listing_ids)
StoreCall(r, firestore, listing_ids) ==
    /\ run[r].pc \in {"idle", "done"}
    /\ invocations < MaxInvocations
    /\ invocations' = invocations + 1
    /\ run' = [run EXCEPT ![r] =
          SaveEntry([IdleRun EXCEPT !.firestore = firestore, !.search_hash = StoreHash],
                    listing_ids, "end")]
    /\ UNCHANGED <<page, seen_listings, task, fnVars>>

\* src/main.py: save_listing_ids with a client and a non-empty list
LegacySaveListingIds(listing_ids, set_ok) ==
    /\ invocations < MaxInvocations
    /\ listing_ids # <<>>
    /\ invocations' = invocations + 1
    /\ seen_listings' =
          IF set_ok
          THEN [seen_listings EXCEPT ![LegacyHash] =
                   [exists |-> TRUE, listing_ids |-> LegacyIdsToStore(listing_ids),
                    last_updated |-> ServerTimestamp]]
          ELSE seen_listings
    /\ UNCHANGED <<page, task, run, fnVars>>

StoreNext ==
    \/ \E r \in Runs, firestore \in BOOLEAN, listing_ids \in StoreLists :
          StoreCall(r, firestore, listing_ids)
    \/ \E r \in Runs, get_ok \in BOOLEAN : SaveGet(r, get_ok)
    \/ \E r \in Runs, set_ok \in BOOLEAN : SaveSet(r, set_ok)
    \/ \E listing_ids \in StoreLists, set_ok \in BOOLEAN : LegacySaveListingIds(listing_ids, set_ok)

SpecStore == StoreInit /\ [][StoreNext]_vars

\* C3 as stated: for every fingerprint the stored identities only grow.
C3_MonotonicSeenSet ==
    [][\A h \in DOMAIN seen_listings :
          Range(seen_listings[h].listing_ids) \subseteq Range(seen_listings'[h].listing_ids)]_vars

\* no identity occurs twice in the list
NoDuplicates(ids) ==
    \A i \in 1..Len(ids), j \in 1..Len(ids) : ids[i] = ids[j] => i = j

\* C4: a merge of N into a fingerprint that succeeds and whose read of the
\* document is still current when it writes (no other merge wrote in
\* between) leaves exactly (stored set before) union N, each identity once.
C4_MergeIsUnion ==
    [][\A r \in Runs :
          (SaveSet(r, TRUE) /\ Range(run[r].existing_ids) = StoredIds(r)) =>
              LET after == seen_listings'[run[r].search_hash].listing_ids
              IN /\ Range(after) = StoredIds(r) \cup Range(run[r].save_arg)
                 /\ NoDuplicates(after)]_vars

\* merge {x, y} and then merge {y, z}: three identities are stored
C4_Witness ==
    /\ run["r1"].pc = "done" /\ run["r1"].save_success
    /\ run["r2"].pc = "done" /\ run["r2"].save_success
    /\ Cardinality(Range(run["r1"].save_arg)) = 2
    /\ Cardinality(Range(run["r2"].save_arg)) = 2
    /\ Cardinality(Range(run["r1"].save_arg) \cap Range(run["r2"].save_arg)) = 1
    /\ Range(run["r2"].existing_ids) = Range(run["r1"].save_arg)
    /\ StoredIds("r2") = Range(run["r1"].save_arg) \cup Range(run["r2"].save_arg)
    /\ Len(seen_listings[StoreHash].listing_ids) = 3

\* C5 as stated: the identities of every call of save_listing_ids that
\* returned success are in the stored set, also when two calls interleave.
C5_MergeAtomic ==
    \A r \in Runs :
        (run[r].pc = "done" /\ run[r].save_success) =>
            Range(run[r].save_arg) \subseteq StoredIds(r)

\* save_listing_ids(search_hash, []) returns at once; it reports success
\* if there is a client and failure if there is none, and no document of
\* the collection changes, last_updated included
EmptyMergeNoOp(r) ==
    \A firestore \in BOOLEAN :
        StoreCall(r, firestore, <<>>) =>
            /\ run'[r].pc = "done"
            /\ run'[r].save_success = firestore
            /\ seen_listings' = seen_listings

\* C27 as stated: save_listing_ids(fp, []) reports success.
C27_AsStated ==
    [][\A r \in Runs, firestore \in BOOLEAN :
          StoreCall(r, firestore, <<>>) => run'[r].save_success]_vars

\* C27: save_listing_ids(fp, []) is a no-op: it leaves the stored set and
\* last_updated of fp and of every other fingerprint unchanged and makes no
\* store access; it reports success when the Firestore client is there and
\* failure when it is not.
C27_EmptyMergeNoOp ==
    /\ [][\A r \in Runs : EmptyMergeNoOp(r)]_vars
    /\ [](\A r \in Runs : run[r].pc \in {"save_get", "save_set"} => run[r].save_arg # <<>>)

\* an empty merge on a fingerprint with stored identities reported success,
\* after a merge of another execution had written the document
C27_Witness ==
    /\ run["r1"].pc = "done" /\ run["r1"].save_arg = <<>> /\ run["r1"].save_success
    /\ run["r1"].save_from = "end"
    /\ seen_listings[StoreHash].exists
    /\ seen_listings[StoreHash].last_updated = 1
    /\ invocations = 2

(***************************************************************************)
(* SpecTasks: task_api.py. A task is created, its Cloud Scheduler job      *)
(* fires, the background thread of create_user_task posts its request, the *)
(* user toggles the task; the executions themselves meet no failure        *)
(***************************************************************************)
\* create_user_task: the document is set, the job created and, for an
\* immediate initial scrape only, paused (a failure to pause is logged);
\* then the background thread is started
CreateUserTask(immediate_scraping, enable_initial_scrape, initial_scrape_count, pause_ok) ==
    /\ ~task.exists
    /\ task' = [NoTask EXCEPT
          !.exists = TRUE,
          !.enable_initial_scrape = enable_initial_scrape,
          !.initial_scrape_count = initial_scrape_count,
          !.job = IF immediate_scraping /\ enable_initial_scrape /\ pause_ok
                  THEN "paused" ELSE "enabled",
          !.thread = IF ~immediate_scraping THEN "none"
                     ELSE IF enable_initial_scrape THEN "scraping" ELSE "seeding",
          !.api_result = "created"]
    /\ UNCHANGED <<page, seen_listings, run, invocations, fnVars>>

\* background_scraping / background_seeding: requests.post(function_url, ..)
BackgroundPost ==
    /\ task.thread \in {"scraping", "seeding"}
    /\ InvokeRun(ThreadRun, task.thread = "seeding", TRUE, TRUE, TRUE, 0, TRUE, TRUE)
    /\ task' = [task EXCEPT !.thread = IF @ = "scraping" THEN "scraping_wait" ELSE "seeding_wait"]
    /\ UNCHANGED <<page, seen_listings, fnVars>>

\* what the thread does after requests.post: background_scraping resumes the
\* job on every path, background_seeding only prints
AfterPost(thread) == IF thread = "scraping_wait" THEN "resume" ELSE "done"

\* the response of the execution arrives
BackgroundResponse ==
    /\ task.thread \in {"scraping_wait", "seeding_wait"}
    /\ run[ThreadRun].pc = "done"
    /\ task' = [task EXCEPT !.thread = AfterPost(@)]
    /\ UNCHANGED <<page, seen_listings, run, invocations, fnVars>>

\* timeout=300 expires first: requests.post raises, the execution goes on
BackgroundTimeout ==
    /\ task.thread \in {"scraping_wait", "seeding_wait"}
    /\ run[ThreadRun].pc # "done"
    /\ task' = [task EXCEPT !.thread = AfterPost(@)]
    /\ UNCHANGED <<page, seen_listings, run, invocations, fnVars>>

\* time.sleep(5); scheduler_client.resume_job(name=job_name), its failure
\* logged
BackgroundResume(resume_ok) ==
    /\ task.thread = "resume"
    /\ task' = [task EXCEPT
          !.thread = "done",
          !.job = IF resume_ok /\ @ = "paused" THEN "enabled" ELSE @]
    /\ UNCHANGED <<page, seen_listings, run, invocations, fnVars>>

\* the enabled job posts its payload to the entry point
SchedulerFire ==
    /\ task.job = "enabled"
    /\ InvokeRun(SchedulerRun, FALSE, TRUE, TRUE, TRUE, 0, TRUE, TRUE)
    /\ UNCHANGED <<page, seen_listings, task, fnVars>>

\* toggle_task_active by the owner. Unpausing compares time.time() with the
\* ISO string stored in next_cooldown: TypeError, nothing is updated and the
\* result is False. Pausing updates the document and pauses the job.
ToggleTaskActive(is_active, pause_ok) ==
    /\ task.exists
    /\ task' = IF is_active
               THEN [task EXCEPT !.api_result = "toggle_false"]
               ELSE [task EXCEPT
                        !.is_active = FALSE,
                        !.job = IF pause_ok /\ @ = "enabled" THEN "paused" ELSE @,
                        !.api_result = "toggle_true"]
    /\ UNCHANGED <<page, seen_listings, run, invocations, fnVars>>

TasksInit ==
    /\ call = NoCall
    /\ ret = NoRet
    /\ page = [kind |-> "dom", items |-> <<>>, posted |-> 0]
    /\ seen_listings = [h \in Hashes |-> NoDoc]
    /\ task = NoTask
    /\ run = [r \in Runs |-> IdleRun]
    /\ invocations = 0

TasksNext ==
    \/ Post
    \/ \E immediate_scraping \in BOOLEAN, enable_initial_scrape \in BOOLEAN, pause_ok \in BOOLEAN :
          CreateUserTask(immediate_scraping, enable_initial_scrape, 1, pause_ok)
    \/ BackgroundPost
    \/ BackgroundResponse
    \/ BackgroundTimeout
    \/ \E resume_ok \in BOOLEAN : BackgroundResume(resume_ok)
    \/ SchedulerFire
    \/ \E is_active \in BOOLEAN, pause_ok \in BOOLEAN : ToggleTaskActive(is_active, pause_ok)
    \/ \E r \in Runs : GetSeen(r, TRUE)
    \/ \E r \in Runs : SeedScrape(r, TRUE, {})
    \/ \E r \in Runs : Scrape(r, TRUE, {}, TRUE)
    \/ \E r \in Runs : Evaluate(r, [i \in 1..Len(run[r].listings) |-> ScoreReply(100)])
    \/ \E r \in Runs : FilterNotify(r, "204", TRUE)
    \/ \E r \in Runs : SaveGet(r, TRUE)
    \/ \E r \in Runs : SaveSet(r, TRUE)

SpecTasks == TasksInit /\ [][TasksNext]_vars

\* between its read of the Seen-Set and the end of its write
InFlight(r) ==
    run[r].pc \in {"seed_scrape", "scrape", "evaluate", "filter", "save_get", "save_set"}

\* C6 as stated: no two executions for one fingerprint are both between
\* their Seen-Set read and their Seen-Set write.
C6_SingleRunInFlight ==
    \A r \in Runs, q \in Runs :
        (r # q /\ run[r].search_hash = run[q].search_hash) =>
            ~(InFlight(r) /\ InFlight(q))

\* the immediate initial scrape of create_user_task: from the start of its
\* background thread to the end of the execution the thread asked for
ImmediateScrapeInFlight ==
    \/ task.thread \in {"scraping", "scraping_wait"}
    \/ run[ThreadRun].pc \notin {"idle", "done"} /\ ~run[ThreadRun].seed_seen_set

\* C33 as stated (its safety part): when the thread of the immediate scrape
\* is about to post, the job is paused, and no run of the scheduler job
\* starts while the immediate scrape is in flight.
C33_BootstrapPause ==
    /\ [](task.thread = "scraping" => task.job = "paused")
    /\ [][SchedulerFire => ~ImmediateScrapeInFlight]_vars

\* no background thread of the task API is at work (the operations of the
\* API themselves are single steps)
Quiescent == task.thread \in {"none", "done"}

\* C34 as stated: in every quiescent state the job of the task is enabled
\* exactly when the task is active.
C34_PauseConsistent ==
    (task.exists /\ Quiescent) => (task.is_active <=> task.job = "enabled")

(***************************************************************************)
(* SpecFilter: get_production_listings on every bounded input              *)
(***************************************************************************)
Thresholds == {LessStrict, Strict, VeryStrict}

\* n evaluated listings in rank order, any score each
EvaluatedLists ==
    UNION {{[i \in 1..n |-> [posting |-> n + 1 - i, evaluation |-> [match_score |-> f[i]]]] :
              f \in [1..n -> Scores]} : n \in 0..MaxItems}

FilterInit ==
    /\ \E listings \in EvaluatedLists, threshold \in Thresholds :
          call = [fn |-> "filter", listings |-> listings, threshold |-> threshold]
    /\ ret = NoRet
    /\ SysUnused

FilterCall ==
    /\ call.fn = "filter"
    /\ ~ret.done
    /\ ret' = [done |-> TRUE] @@ GetProductionListings(call.listings, call.threshold)
    /\ UNCHANGED <<call, sysVars>>

FilterNext == FilterCall

SpecFilter == FilterInit /\ [][FilterNext]_vars

\* C9: get_production_listings retains a listing if and only if its score is
\* at least the threshold; a score equal to the threshold is retained.
C9_ThresholdFilter ==
    (ret.done /\ call.fn = "filter" /\ ~ret.raised) =>
        \A i \in 1..Len(call.listings) :
            (call.listings[i] \in Range(ret.value))
                <=> (call.listings[i].evaluation.match_score.v >= call.threshold)

\* a listing scored exactly at the threshold was retained, a lower one dropped
C9_Witness ==
    /\ ret.done /\ call.fn = "filter" /\ ~ret.raised
    /\ \E i \in 1..Len(call.listings) :
          /\ call.listings[i].evaluation.match_score = Num(call.threshold)
          /\ call.listings[i] \in Range(ret.value)
    /\ \E i \in 1..Len(call.listings) :
          /\ call.listings[i].evaluation.match_score.v < call.threshold
          /\ call.listings[i] \notin Range(ret.value)

\* out is a subsequence of in: its elements are elements of in, taken at
\* increasing positions
IsSubsequence(out, in) ==
    \E f \in [1..Len(out) -> 1..Len(in)] :
        /\ \A k \in 1..Len(out) : out[k] = in[f[k]]
        /\ \A k \in 1..Len(out), l \in 1..Len(out) : k < l => f[k] < f[l]

\* C19: the matches get_production_listings returns are a subsequence of
\* the evaluated listings in their input (rank) order; they are not
\* re-sorted by score.
C19_OrderPreserved ==
    (ret.done /\ call.fn = "filter" /\ ~ret.raised) => IsSubsequence(ret.value, call.listings)

\* two matches were retained, the lower-scored one ranked first and still
\* first in the output
C19_Witness ==
    /\ ret.done /\ call.fn = "filter" /\ ~ret.raised
    /\ Len(ret.value) = 2
    /\ ret.value[1].evaluation.match_score.v < ret.value[2].evaluation.match_score.v
    /\ ret.value[1].posting > ret.value[2].posting
    /\ Len(call.listings) > 2

(***************************************************************************)
(* SpecIsolation: runs of two different tasks with the same search          *)
(***************************************************************************)
\* user ids as the task API receives them, and the seconds of time.time()
IsolationUsers == <<(<<"u">>), (<<"u", "_", "u">>), (<<"u", "_", "1">>)>>
Timestamps == {<<"1">>, <<"2">>}

\* task_id = f"{user_id}_{int(time.time())}"
GenerateTaskId(user_id, timestamp) == user_id \o <<"_">> \o timestamp

\* the (owner, task) pairs create_user_task can make
Owners ==
    {[user_id |-> IsolationUsers[i], task_id |-> GenerateTaskId(IsolationUsers[i], t)] :
        i \in 1..Len(IsolationUsers), t \in Timestamps}

\* the fingerprint of a task's runs: the refined query, the location and the
\* distance of the request with its user_id and task_id
HashOf(owner) ==
    CreateSearchHash(FormatLlmQuery(TRUE, TRUE, UserQuery), Location, Distance,
                     owner.user_id, owner.task_id)

\* r1 runs for one task and r2 for another; both search the same query,
\* location and distance
IsolationInit ==
    /\ \E o1 \in Owners, o2 \in Owners :
          /\ o1 # o2
          /\ call = [fn |-> "isolation", owner |-> [r \in Runs |-> IF r = "r1" THEN o1 ELSE o2]]
    /\ ret = NoRet
    /\ page = [kind |-> "dom", items |-> <<>>, posted |-> 0]
    /\ seen_listings = [h \in {HashOf(o) : o \in Owners} |-> NoDoc]
    /\ task = NoTask
    /\ run = [r \in Runs |-> IdleRun]
    /\ invocations = 0

\* a request with the payload of the task of run r reaches the entry point
InvokeFor(r) ==
    /\ call.fn = "isolation"
    /\ run[r].pc \in {"idle", "done"}
    /\ invocations < MaxInvocations
    /\ invocations' = invocations + 1
    /\ run' = [run EXCEPT ![r] =
          [IdleRun EXCEPT !.pc = "get_seen", !.initial_scrape_count = 1,
                          !.search_hash = HashOf(call.owner[r])]]
    /\ UNCHANGED <<page, seen_listings, task, fnVars>>

IsolationNext ==
    \/ Post
    \/ \E r \in Runs : InvokeFor(r)
    \/ \E r \in Runs : GetSeen(r, TRUE)
    \/ \E r \in Runs : Scrape(r, TRUE, {}, TRUE)
    \/ \E r \in Runs : Evaluate(r, [i \in 1..Len(run[r].listings) |-> ScoreReply(100)])
    \/ \E r \in Runs : FilterNotify(r, "204", TRUE)
    \/ \E r \in Runs : SaveGet(r, TRUE)
    \/ \E r \in Runs : SaveSet(r, TRUE)

SpecIsolation == IsolationInit /\ [][IsolationNext]_vars

\* the runs of the two tasks have different fingerprints
DistinctFingerprints ==
    (run["r1"].pc # "idle" /\ run["r2"].pc # "idle") =>
        run["r1"].search_hash # run["r2"].search_hash

\* a step of a run leaves every document but that of its own fingerprint as
\* it was, and what the run reads as its Seen-Set is its own document
OwnEntryOnly(r) ==
    run'[r] # run[r] =>
        /\ \A h \in DOMAIN seen_listings :
              h # run'[r].search_hash => seen_listings'[h] = seen_listings[h]
        /\ run[r].pc = "get_seen" =>
              run'[r].seen_ids = Range(seen_listings[HashOf(call.owner[r])].listing_ids)
        /\ run[r].pc = "save_get" =>
              run'[r].existing_ids = seen_listings[HashOf(call.owner[r])].listing_ids

UnknownReadsEmpty(r) ==
    (GetSeen(r, TRUE) /\ ~seen_listings[run[r].search_hash].exists) =>
        /\ run'[r].seen_ids = {}
        /\ run'[r].pc = "scrape" /\ run'[r].error = "none"
        /\ seen_listings' = seen_listings

\* C26: get_seen_listing_ids on a fingerprint without a document returns
\* the empty list, not an error, and creates or changes no document.
C26_UnknownReadsEmpty ==
    [][\A r \in Runs : UnknownReadsEmpty(r)]_vars

\* the first run of a task read its fingerprint, which has no document
C26_Witness ==
    /\ call.fn = "isolation"
    /\ run["r1"].pc = "scrape" /\ run["r1"].seen_ids = {}
    /\ ~seen_listings[run["r1"].search_hash].exists
    /\ \A h \in DOMAIN seen_listings : ~seen_listings[h].exists

(***************************************************************************)
(* SpecHash: create_search_hash on two input tuples                        *)
(***************************************************************************)
\* queries that differ in letter case only, and one that differs in content
HashQueries == {<<"B", "k">>, <<"b", "k">>, <<"b">>}
\* locations and distances, one of them with the delimiter in it
HashFields == {<<"9">>, <<"5">>, <<"9", "_", "9">>}
\* owner and task ids; <<>> is an id that was not given
HashUsers == {<<>>, <<"u">>}
HashTasks == {<<>>, <<"t">>}

HashInputs ==
    [query : HashQueries, location : HashFields, distance : HashFields,
     user_id : HashUsers, task_id : HashTasks]

HashInit ==
    /\ \E a \in HashInputs, b \in HashInputs : call = [fn |-> "hash", a |-> a, b |-> b]
    /\ ret = NoRet
    /\ SysUnused

\* the fingerprint of an input tuple, by the entry point's function and by
\* the legacy one, which takes query, location and distance only
Fingerprint(x) == CreateSearchHash(x.query, x.location, x.distance, x.user_id, x.task_id)
LegacyFingerprint(x) == LegacyCreateSearchHash(x.query, x.location, x.distance)

HashCall ==
    /\ call.fn = "hash"
    /\ ~ret.done
    /\ ret' = [done |-> TRUE,
               a |-> Fingerprint(call.a), b |-> Fingerprint(call.b),
               legacy_a |-> LegacyFingerprint(call.a), legacy_b |-> LegacyFingerprint(call.b)]
    /\ UNCHANGED <<call, sysVars>>

HashNext == HashCall

SpecHash == HashInit /\ [][HashNext]_vars

\* two strings of the same letters, in whatever case
EqualIgnoringCase(s, t) ==
    /\ Len(s) = Len(t)
    /\ \A i \in 1..Len(s) :
          \/ s[i] = t[i]
          \/ {s[i], t[i]} = {"B", "b"}
          \/ {s[i], t[i]} = {"K", "k"}

\* two input tuples that are equal but for the letter case of the query
SameButCase(x, y) ==
    /\ EqualIgnoringCase(x.query, y.query)
    /\ x.location = y.location /\ x.distance = y.distance
    /\ x.user_id = y.user_id /\ x.task_id = y.task_id

\* C21: create_search_hash returns the same value for equal inputs, and
\* for inputs whose queries differ in letter case only; so does the legacy
\* function.
C21_FingerprintDeterministic ==
    (ret.done /\ call.fn = "hash" /\ SameButCase(call.a, call.b)) =>
        (ret.a = ret.b /\ ret.legacy_a = ret.legacy_b)

\* 'Bk' and 'bk' with the same owner and task gave one fingerprint
C21_Witness ==
    /\ ret.done /\ call.fn = "hash"
    /\ call.a.query # call.b.query /\ SameButCase(call.a, call.b)
    /\ call.a.user_id # <<>> /\ call.a.task_id # <<>>
    /\ ret.a = ret.b

\* two input tuples with the same query that differ in location, distance,
\* owner id or task id
DifferInAField(x, y) ==
    /\ x.query = y.query
    /\ <<x.location, x.distance, x.user_id, x.task_id>> #
          <<y.location, y.distance, y.user_id, y.task_id>>

\* C22 as stated: two input tuples that differ in location, distance, owner
\* id or task id never have the same pre-hash key, whether or not a field
\* holds the delimiter and whether or not an owner id comes with the task
\* id.
C22_KeyInjective ==
    (ret.done /\ call.fn = "hash" /\ DifferInAField(call.a, call.b)) =>
        ret.a.md5 # ret.b.md5

(***************************************************************************)
(* SpecMode: the choice of the run mode                                    *)
(***************************************************************************)
\* Seen-Sets of up to two identities
ModeSeenSets ==
    {S \in SUBSET {ListingId("dom", i, p, 0) : i \in Positions, p \in Postings} :
        Cardinality(S) <= 2}

ModeInit ==
    /\ \E enable_initial_scrape \in BOOLEAN, is_initial_scrape \in BOOLEAN,
          seen_ids \in ModeSeenSets :
          call = [fn |-> "mode", enable_initial_scrape |-> enable_initial_scrape,
                  is_initial_scrape |-> is_initial_scrape, seen_ids |-> seen_ids]
    /\ ret = NoRet
    /\ SysUnused

ModeCall ==
    /\ call.fn = "mode"
    /\ ~ret.done
    /\ ret' = [done |-> TRUE,
               is_initial_run |-> IsInitialRun(call.enable_initial_scrape,
                                               call.is_initial_scrape, call.seen_ids)]
    /\ UNCHANGED <<call, sysVars>>

ModeNext == ModeCall

SpecMode == ModeInit /\ [][ModeNext]_vars

\* C23 as stated: the caller can force either mode whatever the Seen-Set
\* holds: a request with the initial scrape disabled runs as an
\* IncrementalRun on an empty Seen-Set, and a request marked as the initial
\* scrape runs as an InitialRun on a non-empty Seen-Set.
C23_OverrideTakesEffect ==
    (ret.done /\ call.fn = "mode") =>
        /\ ~call.enable_initial_scrape => ~ret.is_initial_run
        /\ (call.enable_initial_scrape /\ call.is_initial_scrape) => ret.is_initial_run


(***************************************************************************)
(* SpecPoll: the scheduler's polls of one task, one after another, with    *)
(* no failure: every client is initialized, every read, write, page        *)
(* request, scorer answer and notification succeeds. ret keeps the record  *)
(* of the polls before the current one.                                    *)
(***************************************************************************)
\* nothing polled yet
NoPolls ==
    [processed |-> {}, notified |-> {}, normal |-> FALSE, items |-> <<>>,
     seen_listings |-> [h \in Hashes |-> NoDoc]]

PollInit ==
    /\ call = [fn |-> "poll"]
    /\ ret = NoPolls
    /\ page \in [kind : PageKinds, items : {<<>>}, posted : {0}]
    /\ seen_listings = [h \in Hashes |-> NoDoc]
    /\ task \in {t \in TaskConfigs : t.strictness = "strict"}
    /\ run = [r \in Runs |-> IdleRun]
    /\ invocations = 0

\* the postings of a sequence of listings
PostingsOf(listings) == {listings[i].posting : i \in 1..Len(listings)}

\* the response of a run that went through to its end: with listings, with
\* none new, or with none at all
NormalResponses ==
    {"Craigslist bot execution completed",
     "No new listings found - all listings have been processed previously",
     "No listings found - search criteria may need adjustment"}

\* the scheduler job posts the task's payload; the process that serves the
\* request has its own hash salt
PollRequest ==
    /\ call.fn = "poll"
    /\ \E salt \in (IF page.kind = "json_ld" THEN Salts ELSE {0}) :
          InvokeRun("r1", FALSE, TRUE, TRUE, TRUE, salt, TRUE, TRUE)
    /\ ret' = [processed |-> ret.processed \cup PostingsOf(run["r1"].evaluated),
               notified |-> ret.notified \cup
                   (IF run["r1"].notification_sent
                    THEN PostingsOf(run["r1"].recommended) ELSE {}),
               normal |-> /\ run["r1"].pc = "done" /\ run["r1"].status = 200
                          /\ run["r1"].message \in NormalResponses
                          /\ ret.items = page.items,
               items |-> page.items,
               seen_listings |-> seen_listings]
    /\ UNCHANGED <<call, page, seen_listings, task>>

PollNext ==
    \/ Post
    \/ PollRequest
    \/ GetSeen("r1", TRUE)
    \/ Scrape("r1", TRUE, {}, TRUE)
    \/ Evaluate("r1", [i \in 1..Len(run["r1"].listings) |-> ScoreReply(100)])
    \/ FilterNotify("r1", "204", TRUE)
    \/ SaveGet("r1", TRUE)
    \/ SaveSet("r1", TRUE)

SpecPoll == PollInit /\ [][PollNext]_vars

\* C28 as stated: over polls that follow one another, between which the
\* page only gains postings at its top, no posting is evaluated in two runs
\* and none is in the notification of two runs.
C28_AtMostOnce ==
    /\ PostingsOf(run["r1"].evaluated) \cap ret.processed = {}
    /\ run["r1"].notification_sent =>
          PostingsOf(run["r1"].recommended) \cap ret.notified = {}

\* C30 as stated: the poll that follows a normally completed run on an
\* unchanged page returns no new listing, calls the scorer for none, sends
\* no notification and leaves the stored Seen-Sets as they were.
C30_RepollIdempotent ==
    (ret.normal /\ run["r1"].pc \notin {"idle", "get_seen", "scrape"}) =>
        /\ run["r1"].listings = <<>>
        /\ run["r1"].evaluated = <<>>
        /\ ~run["r1"].notification_sent
        /\ seen_listings = ret.seen_listings


(***************************************************************************)
(* update_task_stats and the statistics of a user_tasks document           *)
(***************************************************************************)
\* the statistics fields of the document create_user_task sets
NoStats == [total_runs |-> 0, total_scrapes |-> 0, total_matches |-> 0, logs |-> <<>>]

\* task_doc = task_ref.get() and the three current_* locals
StatsRead(doc) ==
    [current_runs |-> doc.total_runs,
     current_scrapes |-> doc.total_scrapes,
     current_matches |-> doc.total_matches]

\* task_ref.update(updates): the counters are written as the values read
\* plus the amounts, the log entry is added with ArrayUnion
StatsWrite(doc, current, total_scrapes, total_matches, log_entry, increment_run_count) ==
    [doc EXCEPT
        !.total_runs = current.current_runs + (IF increment_run_count THEN 1 ELSE 0),
        !.total_scrapes = current.current_scrapes + total_scrapes,
        !.total_matches = current.current_matches + total_matches,
        !.logs = IF log_entry = NoLog THEN @ ELSE Append(@, log_entry)]

\* a call that no other write to the document falls into
UpdateTaskStats(doc, total_scrapes, total_matches, log_entry, increment_run_count) ==
    StatsWrite(doc, StatsRead(doc), total_scrapes, total_matches, log_entry,
               increment_run_count)

(***************************************************************************)
(* SpecPaused: the requests that reach the entry point while the task is   *)
(* paused; no read or write fails. call.doc holds the statistics of the    *)
(* task's document.                                                        *)
(***************************************************************************)
\* the three log entries of a run that reads total_runs = 0
LlmLogs ==
    <<LogEntry("LLM evaluating best Craigslist search", "info"),
      LogEntry("LLM evaluating filters", "info"),
      LogEntry("LLM built query link", "info")>>

\* llm_query_log, llm_filter_log and llm_url_log, each handed to
\* update_task_stats(task_id, 0, 0, log, increment_run_count=False)
AddLlmLogs(doc) ==
    IF doc.total_runs # 0 THEN doc
    ELSE UpdateTaskStats(
             UpdateTaskStats(
                 UpdateTaskStats(doc, 0, 0, LlmLogs[1], FALSE),
                 0, 0, LlmLogs[2], FALSE),
             0, 0, LlmLogs[3], FALSE)

PausedInit ==
    /\ \E total_runs \in 0..1 :
          call = [fn |-> "paused", doc |-> [NoStats EXCEPT !.total_runs = total_runs]]
    /\ ret = NoRet
    /\ page \in [kind : PageKinds, items : {<<>>}, posted : {0}]
    /\ seen_listings = [h \in Hashes |-> NoDoc]
    /\ task \in {t \in TaskConfigs : t.strictness = "strict"}
    /\ run = [r \in Runs |-> IdleRun]
    /\ invocations = 0

\* a request for the paused task: from the job when pausing it failed, or
\* one that was on its way
PausedRequest(r) ==
    /\ call.fn = "paused"
    /\ ~task.is_active
    /\ \E salt \in (IF page.kind = "json_ld" THEN Salts ELSE {0}) :
          InvokeRun(r, FALSE, TRUE, TRUE, TRUE, salt, TRUE, TRUE)
    /\ call' = [call EXCEPT !.doc = AddLlmLogs(@)]
    /\ UNCHANGED <<ret, page, seen_listings, task>>

PausedNext ==
    \/ Post
    \/ \E is_active \in BOOLEAN, pause_ok \in BOOLEAN : ToggleTaskActive(is_active, pause_ok)
    \/ \E r \in Runs : PausedRequest(r)

SpecPaused == PausedInit /\ [][PausedNext]_vars

\* C32 as stated: a request for a paused task returns the paused outcome
\* with zero counts, has fetched, scored, notified and stored nothing, and
\* leaves the statistics and the log of the task as they were.
C32_PausedRunInert ==
    [][\A r \in Runs :
          PausedRequest(r) =>
              /\ run'[r].pc = "done" /\ run'[r].status = 200
              /\ run'[r].message = "Task is paused - skipping execution"
              /\ run'[r].new_listings = 0
              /\ run'[r].listings = <<>> /\ run'[r].evaluated = <<>>
              /\ run'[r].recommended = <<>> /\ ~run'[r].notification_sent
              /\ seen_listings' = seen_listings
              /\ call'.doc = call.doc]_vars


(***************************************************************************)
(* SpecStats: calls of update_task_stats on one task by two executions at  *)
(* a time; no read or write fails. call.doc holds the statistics of the    *)
(* task's document, call.caller the locals of the calls under way, ret the *)
(* calls made so far.                                                      *)
(***************************************************************************)
MaxStatsCalls == 3

\* the amounts a run passes: len(listings), len(recommended_listings)
StatsAmounts == 0..1

\* the log entries a run passes
StatsLogs == {NoLog, LogEntry("Found matches", "success")}

NoCaller ==
    [pc |-> "idle", total_scrapes |-> 0, total_matches |-> 0, log_entry |-> NoLog,
     increment_run_count |-> FALSE, current |-> StatsRead(NoStats)]

\* nothing called yet
NoCalls == [calls |-> 0, runs |-> 0, scrapes |-> 0, matches |-> 0]

StatsInit ==
    /\ call = [fn |-> "stats", doc |-> NoStats, caller |-> [r \in Runs |-> NoCaller]]
    /\ ret = NoCalls
    /\ page = [kind |-> "dom", items |-> <<>>, posted |-> 0]
    /\ seen_listings = [h \in Hashes |-> NoDoc]
    /\ task = NoTask
    /\ run = [r \in Runs |-> IdleRun]
    /\ invocations = 0

\* update_task_stats up to task_doc = task_ref.get() and the current_* locals
StatsGet(r, total_scrapes, total_matches, log_entry, increment_run_count) ==
    /\ call.fn = "stats"
    /\ call.caller[r].pc = "idle"
    /\ ret.calls < MaxStatsCalls
    /\ call' = [call EXCEPT !.caller[r] =
          [pc |-> "update", total_scrapes |-> total_scrapes,
           total_matches |-> total_matches, log_entry |-> log_entry,
           increment_run_count |-> increment_run_count,
           current |-> StatsRead(call.doc)]]
    /\ ret' = [calls |-> ret.calls + 1,
               runs |-> ret.runs + (IF increment_run_count THEN 1 ELSE 0),
               scrapes |-> ret.scrapes + total_scrapes,
               matches |-> ret.matches + total_matches]
    /\ UNCHANGED sysVars

\* task_ref.update(updates); return True
StatsUpdate(r) ==
    /\ call.fn = "stats"
    /\ call.caller[r].pc = "update"
    /\ LET c == call.caller[r] IN
       call' = [call EXCEPT
          !.doc = StatsWrite(@, c.current, c.total_scrapes, c.total_matches,
                             c.log_entry, c.increment_run_count),
          !.caller[r] = NoCaller]
    /\ UNCHANGED <<ret, sysVars>>

StatsNext ==
    \/ \E r \in Runs, total_scrapes \in StatsAmounts, total_matches \in StatsAmounts,
          log_entry \in StatsLogs, increment_run_count \in BOOLEAN :
          StatsGet(r, total_scrapes, total_matches, log_entry, increment_run_count)
    \/ \E r \in Runs : StatsUpdate(r)

SpecStats == StatsInit /\ [][StatsNext]_vars

\* C35 as stated: when no call is under way, total_runs is the number of
\* calls made with increment_run_count true, and total_scrapes and
\* total_matches are the sums of the amounts passed.
C35_NoLostUpdate ==
    (\A r \in Runs : call.caller[r].pc = "idle") =>
        /\ call.doc.total_runs = ret.runs
        /\ call.doc.total_scrapes = ret.scrapes
        /\ call.doc.total_matches = ret.matches


(***************************************************************************)
(* SpecApi: create_user_task (called with immediate_scraping false),       *)
(* delete_user_task and toggle_task_active on the user_tasks collection    *)
(* and the Cloud Scheduler jobs, by two users; deleting and pausing a job  *)
(* succeed. call holds the clock, the documents and the jobs, ret the      *)
(* result of the last request.                                             *)
(***************************************************************************)
ApiUsers == {<<"u">>, <<"v">>}
TaskNames == {"n1", "n2"}

\* the ids create_user_task can make within the modelled seconds
ApiTaskIds == {GenerateTaskId(user_id, t) : user_id \in ApiUsers, t \in Timestamps}

\* no document under an id, and the document create_user_task sets
NoTaskDoc == [exists |-> FALSE, user_id |-> <<>>, name |-> "none", is_active |-> TRUE]
TaskDoc(user_id, task_name) ==
    [exists |-> TRUE, user_id |-> user_id, name |-> task_name, is_active |-> TRUE]

\* the state of the job craigslist-bot-{task_id}
JobStates == {"none", "enabled", "paused"}

\* int(time.time()) moves on
NextSecond(t) == IF t = <<"1">> THEN <<"2">> ELSE t

ApiInit ==
    /\ call = [fn |-> "api", now |-> <<"1">>,
               docs |-> [t \in ApiTaskIds |-> NoTaskDoc],
               jobs |-> [t \in ApiTaskIds |-> "none"]]
    /\ ret = [done |-> FALSE, op |-> "none", success |-> FALSE, refused |-> "no"]
    /\ page = [kind |-> "dom", items |-> <<>>, posted |-> 0]
    /\ seen_listings = [h \in Hashes |-> NoDoc]
    /\ task = NoTask
    /\ run = [r \in Runs |-> IdleRun]
    /\ invocations = 0

\* the result of a request, and what it was refused for
Result(op, success, refused) ==
    [done |-> TRUE, op |-> op, success |-> success, refused |-> refused]

\* the early returns of the ownership check
Refusal(doc) == IF doc.exists THEN "not_owner" ELSE "unknown"

Tick ==
    /\ call.fn = "api"
    /\ NextSecond(call.now) # call.now
    /\ call' = [call EXCEPT !.now = NextSecond(@)]
    /\ UNCHANGED <<ret, sysVars>>

\* create_user_task: a missing user_id is refused; else the document is set
\* under the generated id and the job created. create_job raises when a job
\* of that name exists or when the service fails (job_ok = FALSE); the outer
\* except returns success False.
CreateUserTaskOf(user_id, task_name, job_ok) ==
    /\ call.fn = "api"
    /\ LET task_id == GenerateTaskId(user_id, call.now) IN
       IF user_id = <<>>
       THEN /\ ret' = Result("create", FALSE, "missing_field")
            /\ call' = call
       ELSE IF ~job_ok \/ call.jobs[task_id] # "none"
       THEN /\ call' = [call EXCEPT !.docs[task_id] = TaskDoc(user_id, task_name)]
            /\ ret' = Result("create", FALSE, "no")
       ELSE /\ call' = [call EXCEPT !.docs[task_id] = TaskDoc(user_id, task_name),
                                    !.jobs[task_id] = "enabled"]
            /\ ret' = Result("create", TRUE, "no")
    /\ UNCHANGED sysVars

\* the mutant: any user passes for the owner
BelongsToAnyone(doc, user_id) == doc.exists

\* task_doc.exists and task_data.get('user_id') == user_id
BelongsTo(doc, user_id) == doc.exists /\ doc.user_id = user_id

\* delete_user_task: the document is deleted, then the job
DeleteUserTask(task_id, user_id) ==
    /\ call.fn = "api"
    /\ IF ~BelongsTo(call.docs[task_id], user_id)
       THEN /\ ret' = Result("delete", FALSE, Refusal(call.docs[task_id]))
            /\ call' = call
       ELSE /\ call' = [call EXCEPT !.docs[task_id] = NoTaskDoc,
                                    !.jobs[task_id] = "none"]
            /\ ret' = Result("delete", TRUE, "no")
    /\ UNCHANGED sysVars

\* toggle_task_active: unpausing compares time.time() with the ISO string of
\* next_cooldown, TypeError, result False; pausing updates the document and
\* pauses the job (pausing a job that does not exist raises, which is
\* printed)
ToggleTaskActiveOf(task_id, user_id, is_active) ==
    /\ call.fn = "api"
    /\ IF ~BelongsTo(call.docs[task_id], user_id)
       THEN /\ ret' = Result("toggle", FALSE, Refusal(call.docs[task_id]))
            /\ call' = call
       ELSE IF is_active
       THEN /\ ret' = Result("toggle", FALSE, "no")
            /\ call' = call
       ELSE /\ call' = [call EXCEPT
                  !.docs[task_id].is_active = FALSE,
                  !.jobs[task_id] = IF @ # "none" THEN "paused" ELSE @]
            /\ ret' = Result("toggle", TRUE, "no")
    /\ UNCHANGED sysVars

ApiNext ==
    \/ Tick
    \/ \E user_id \in ApiUsers \cup {<<>>}, task_name \in TaskNames, job_ok \in BOOLEAN :
          CreateUserTaskOf(user_id, task_name, job_ok)
    \/ \E task_id \in ApiTaskIds, user_id \in ApiUsers : DeleteUserTask(task_id, user_id)
    \/ \E task_id \in ApiTaskIds, user_id \in ApiUsers, is_active \in BOOLEAN :
          ToggleTaskActiveOf(task_id, user_id, is_active)

SpecApi == ApiInit /\ [][ApiNext]_vars


\* the documents and jobs that exist are left as they are by a step
ExistingTasksKept ==
    \A t \in ApiTaskIds :
        /\ call.docs[t].exists => call'.docs[t] = call.docs[t]
        /\ call.jobs[t] # "none" => call'.jobs[t] = call.jobs[t]

\* C36 as stated: a successful create_user_task returns an id under which
\* no task existed, and no creation changes the document or the job of a
\* task that exists.
C36_TaskIdsUnique ==
    [][\A user_id \in ApiUsers, task_name \in TaskNames, job_ok \in BOOLEAN :
          CreateUserTaskOf(user_id, task_name, job_ok) =>
              /\ ret'.success => ~call.docs[GenerateTaskId(user_id, call.now)].exists
              /\ ExistingTasksKept]_vars

\* C37 as stated: after a create_user_task that returned success False
\* there is no document and no job for the task it was creating.
C37_CreateAllOrNothing ==
    [][\A user_id \in ApiUsers \cup {<<>>}, task_name \in TaskNames, job_ok \in BOOLEAN :
          (CreateUserTaskOf(user_id, task_name, job_ok) /\ ~ret'.success) =>
              /\ user_id = <<>> => (call'.docs = call.docs /\ call'.jobs = call.jobs)
              /\ user_id # <<>> =>
                    /\ ~call'.docs[GenerateTaskId(user_id, call.now)].exists
                    /\ call'.jobs[GenerateTaskId(user_id, call.now)] = "none"]_vars

\* a request that is refused returns False and changes no document, no
\* flag and no job, and starts no run
Refused ==
    /\ ret'.done /\ ~ret'.success
    /\ call'.docs = call.docs /\ call'.jobs = call.jobs
    /\ run' = run /\ invocations' = invocations

\* C38: delete_user_task and toggle_task_active for an id with no document,
\* or by a user who is not the owner of the task, return False and leave the
\* documents, the is_active flags and the jobs as they were, and start no
\* run.
C38_OwnershipChecked ==
    [][\A task_id \in ApiTaskIds, user_id \in ApiUsers :
          (~call.docs[task_id].exists \/ call.docs[task_id].user_id # user_id) =>
              /\ DeleteUserTask(task_id, user_id) => Refused
              /\ \A is_active \in BOOLEAN :
                    ToggleTaskActiveOf(task_id, user_id, is_active) => Refused]_vars

\* a user who is not the owner asked to delete or toggle a task: the request
\* was refused, and the active task and its enabled job are there
C38_Witness ==
    /\ ret.done /\ ret.op \in {"delete", "toggle"} /\ ret.refused = "not_owner"
    /\ ~ret.success
    /\ \E t \in ApiTaskIds :
          /\ call.docs[t].exists /\ call.docs[t].user_id = <<"u">>
          /\ call.docs[t].is_active /\ call.jobs[t] = "enabled"

====
